---- MODULE Spec2Model ----
(***************************************************************************)
(* Connectivity model of the PCB reverse-engineering tool                  *)
(* (src/pcb_reverse.py, class PCBProject): identifier normalisation, the   *)
(* connection store and its mutators, and net construction by union-find.  *)
(*                                                                         *)
(* A Python str is a sequence of one-character strings, so that upper(),   *)
(* strip(), split(), the character filters of normalize_ref and the        *)
(* lexicographic order used by sorted() are computed, not assumed.         *)
(* Python's None is the empty tuple; an optional value v is <<v>>.         *)
(*                                                                         *)
(* components, connections and net_names are the fields of PCBProject;     *)
(* last is the command just run; files is the content of the three project *)
(* files on disk; running tells whether main's command loop still reads    *)
(* commands.  iteration is the order in which iterating the set            *)
(* self.connections yields its pairs: Some(order) in a specification that  *)
(* follows it (the order stays while the set is not modified and the       *)
(* process lives), None in one that does not, where every iteration may    *)
(* yield any order.  call is None, or Some(frame) while a build_nets that  *)
(* is followed step by step is running: frame holds its locals.            *)
(***************************************************************************)
EXTENDS Integers, Sequences, FiniteSets, TLC

VARIABLES components, connections, net_names, last, files, running, iteration, call

vars == <<components, connections, net_names, last, files, running, iteration, call>>

(***************************************************************************)
(* Bounds of the model.                                                    *)
(***************************************************************************)
\* in a session of connection commands, add_connection is not offered once
\* the store holds this many pairs
MaxConns == 2
\* the same, in a session that recomputes the nets
MaxNetConns == 3
\* name_net is not offered once the registry holds this many entries
MaxNames == 2
\* longest component ref typed
MaxRefLen == 4

(***************************************************************************)
(* Characters and strings.                                                 *)
(***************************************************************************)
Range(s) == {s[i] : i \in 1..Len(s)}

Digits == <<"0", "1", "2", "3", "4", "5", "6", "7", "8", "9">>
UpperCase == <<"A", "B", "C", "D", "E", "F", "G", "H", "I", "J", "K", "L", "M",
               "N", "O", "P", "Q", "R", "S", "T", "U", "V", "W", "X", "Y", "Z">>
LowerCase == <<"a", "b", "c", "d", "e", "f", "g", "h", "i", "j", "k", "l", "m",
               "n", "o", "p", "q", "r", "s", "t", "u", "v", "w", "x", "y", "z">>
\* the characters of the model in code-point order
Alphabet == <<" ", "-", ".">> \o Digits \o UpperCase \o <<"_">> \o LowerCase

\* position of a character in code-point order (the order sorted() compares by)
Code == [c \in Range(Alphabet) |-> CHOOSE i \in 1..Len(Alphabet) : Alphabet[i] = c]

None == <<>>
Some(v) == <<v>>

Letters == Range(UpperCase) \cup Range(LowerCase)
isalpha(c) == c \in Letters
DigitChars == Range(Digits)
isdigit(c) == c \in DigitChars
isspace(c) == c = " "

\* str.upper(), one character
UpperChar ==
    [c \in Range(Alphabet) |->
        IF \E i \in 1..Len(LowerCase) : LowerCase[i] = c
        THEN UpperCase[CHOOSE i \in 1..Len(LowerCase) : LowerCase[i] = c]
        ELSE c]

\* str.upper()
upper(s) == [i \in 1..Len(s) |-> UpperChar[s[i]]]

\* str.strip(): drop leading and trailing whitespace
strip(s) ==
    LET keep == {i \in 1..Len(s) : ~isspace(s[i])}
    IN IF keep = {} THEN <<>>
       ELSE LET lo == CHOOSE i \in keep : \A j \in keep : i <= j
                hi == CHOOSE i \in keep : \A j \in keep : j <= i
            IN SubSeq(s, lo, hi)

\* int(num_str) for a non-empty string of decimal digits
RECURSIVE int(_)
int(s) ==
    IF s = <<>> THEN 0
    ELSE 10 * int(SubSeq(s, 1, Len(s) - 1))
         + (Code[s[Len(s)]] - Code["0"])

\* str(n) for a natural number n
RECURSIVE str(_)
str(n) == IF n < 10 THEN <<Digits[n + 1]>> ELSE str(n \div 10) \o <<Digits[(n % 10) + 1]>>

\* f"{num:02d}"
Format02d(num) == IF num < 10 THEN <<"0">> \o str(num) ELSE str(num)

\* a < b in Python's order on str: lexicographic by code point
RECURSIVE StrLess(_, _)
StrLess(a, b) ==
    IF b = <<>> THEN FALSE
    ELSE IF a = <<>> THEN TRUE
    ELSE IF a[1] # b[1] THEN Code[a[1]] < Code[b[1]]
    ELSE StrLess(Tail(a), Tail(b))

\* a pair stored in the order the pins were given
SortedPair_AsGiven(a, b) == <<a, b>>

\* tuple(sorted([a, b]))
SortedPair(a, b) == IF StrLess(b, a) THEN <<b, a>> ELSE <<a, b>>

\* sep in s
Contains(s, sep) == \E i \in 1..Len(s) : s[i] = sep

\* s.split(sep, 1) when sep occurs in s: the text before and after its first occurrence
Split1(s, sep) ==
    LET k == CHOOSE i \in 1..Len(s) : s[i] = sep /\ \A j \in 1..(i - 1) : s[j] # sep
    IN <<SubSeq(s, 1, k - 1), SubSeq(s, k + 1, Len(s))>>

\* s.startswith(p)
startswith(s, p) == Len(p) <= Len(s) /\ SubSeq(s, 1, Len(p)) = p

(***************************************************************************)
(* Component helpers.                                                      *)
(***************************************************************************)
\* ''.join(c for c in ref if c.isalpha())
AlphaPart(ref) == SelectSeq(ref, isalpha)
\* ''.join(c for c in ref if c.isdigit())
DigitPart(ref) == SelectSeq(ref, isdigit)

get_component_type(ref) ==
    LET prefix == upper(AlphaPart(ref))
    IN CASE prefix = <<"R">> -> "resistor"
         [] prefix = <<"C">> -> "capacitor"
         [] prefix = <<"L">> -> "inductor"
         [] prefix = <<"D">> -> "diode"
         [] prefix = <<"Q">> -> "transistor"
         [] prefix = <<"U">> -> "ic"
         [] prefix = <<"J">> -> "connector"
         [] prefix = <<"T">> -> "transformer"
         [] prefix = <<"F">> -> "fuse"
         [] prefix = <<"S", "W">> -> "switch"
         [] prefix = <<"L", "E", "D">> -> "led"
         [] prefix = <<"T", "P">> -> "testpoint"
         [] OTHER -> "other"

get_default_pins(ref) ==
    LET comp_type == get_component_type(ref)
    IN CASE comp_type \in {"resistor", "capacitor", "inductor", "diode", "led", "fuse"} -> 2
         [] comp_type = "transistor" -> 3
         [] comp_type = "testpoint" -> 1
         [] OTHER -> 2

\* a normalize_ref that pads by putting a "0" before the digits it found
normalize_ref_PadsDigitString(ref0) ==
    LET ref == strip(upper(ref0))
        prefix == AlphaPart(ref)
        num_str == DigitPart(ref)
    IN IF prefix # <<>> /\ num_str # <<>> /\ int(num_str) < 10
       THEN prefix \o <<"0">> \o num_str
       ELSE ref

normalize_ref(ref0) ==
    LET ref == strip(upper(ref0))
        prefix == AlphaPart(ref)
        num_str == DigitPart(ref)
    IN IF prefix # <<>> /\ num_str # <<>> /\ int(num_str) < 10
       THEN prefix \o Format02d(int(num_str))
       ELSE ref

(***************************************************************************)
(* Pins.  A parsed pin is <<ref, label>>; label None marks the pin of a    *)
(* single-pin component, Some(text) an explicit pin label.                 *)
(***************************************************************************)
\* ref in self.components and self.components[ref].get("pins") == 1
IsSinglePin(comps, ref) == ref \in DOMAIN comps /\ comps[ref].pins = 1

Separators == <<"-", ".", "_">>
TAB == <<"T", "A", "B">>

parse_pin(comps, pin_str0) ==
    LET pin_str == strip(upper(pin_str0))
        present == {i \in 1..Len(Separators) : Contains(pin_str, Separators[i])}
    IN IF IsSinglePin(comps, pin_str) THEN <<pin_str, None>>
       ELSE IF present # {}
       THEN LET sep == Separators[CHOOSE i \in present : \A j \in present : i <= j]
                parts == Split1(pin_str, sep)
                ref == normalize_ref(parts[1])
                pin0 == strip(parts[2])
                pin == IF upper(pin0) = TAB THEN TAB ELSE pin0
            IN IF IsSinglePin(comps, ref) THEN <<ref, None>> ELSE <<ref, Some(pin)>>
       ELSE LET normalized == normalize_ref(pin_str)
            IN IF IsSinglePin(comps, normalized) THEN <<normalized, None>> ELSE None

format_pin(parsed_pin) ==
    IF parsed_pin = None THEN None
    ELSE IF parsed_pin[2] = None THEN parsed_pin[1]
    ELSE parsed_pin[1] \o <<"-">> \o parsed_pin[2][1]

\* f"{p[0]}-1": the explicit spelling of a single-pin component's pin
Dash1(ref) == ref \o <<"-", "1">>

\* pin in conn, for a stored 2-tuple conn
InConn(pin, conn) == pin = conn[1] \/ pin = conn[2]

\* the ways a set can be listed: iterating a Python set yields its members in
\* an order the program does not control
Orders(S) ==
    {o \in [1..Cardinality(S) -> S] : \A i, j \in 1..Cardinality(S) : i # j => o[i] # o[j]}

\* the orders in which "for conn in self.connections" may yield the pairs now
ConnOrders == IF iteration = None THEN Orders(connections) ELSE {iteration[1]}

(***************************************************************************)
(* Component table.  Only the fields the connectivity core reads are kept: *)
(* the pin count and the type; value, package, description and measured    *)
(* values belong to the value-formatting layer.                            *)
(***************************************************************************)
\* the component table after add_component(ref, pins); pins None takes the default
add_component(comps, ref0, pins) ==
    LET ref == normalize_ref(ref0)
        n == IF pins = None THEN get_default_pins(ref) ELSE pins[1]
        rec == [pins |-> n, type |-> get_component_type(ref)]
    IN [r \in DOMAIN comps \cup {ref} |-> IF r = ref THEN rec ELSE comps[r]]

\* add_connection's "auto-add components if they don't exist", for one ref
AutoAdd(comps, ref) == IF ref \notin DOMAIN comps THEN add_component(comps, ref, None) ELSE comps

Result(op, args, ret, msg) == [op |-> op, args |-> args, ret |-> ret, msg |-> msg]

AddComponent(ref, pins) ==
    /\ components' = add_component(components, ref, pins)
    /\ last' = Result("add_component", <<ref>>, TRUE, "added")
    /\ UNCHANGED <<connections, net_names>>

\* edit_component(ref, "pins", value)
EditComponent(ref0, value) ==
    LET ref == normalize_ref(ref0)
    IN IF ref \notin DOMAIN components
       THEN /\ last' = Result("edit_component", <<ref0>>, FALSE, "not found")
            /\ UNCHANGED <<components, connections, net_names>>
       ELSE /\ components' = [components EXCEPT ![ref].pins = value]
            /\ last' = Result("edit_component", <<ref0>>, TRUE, "updated")
            /\ UNCHANGED <<connections, net_names>>

DeleteComponent(ref0) ==
    LET ref == normalize_ref(ref0)
        to_remove == {c \in connections :
                         startswith(c[1], ref \o <<"-">>) \/ startswith(c[2], ref \o <<"-">>)}
    IN IF ref \notin DOMAIN components
       THEN /\ last' = Result("delete_component", <<ref0>>, FALSE, "not found")
            /\ UNCHANGED <<components, connections, net_names>>
       ELSE /\ connections' = connections \ to_remove
            /\ components' = [r \in DOMAIN components \ {ref} |-> components[r]]
            /\ last' = Result("delete_component", <<ref0>>, TRUE, "deleted")
            /\ UNCHANGED net_names

(***************************************************************************)
(* Connection store.                                                       *)
(***************************************************************************)
\* an add_connection that auto-adds the component of its first pin before it
\* looks at the second
AddConnection_AutoAddsFirst(pin1, pin2) ==
    LET p1 == parse_pin(components, pin1)
        p2 == parse_pin(components, pin2)
    IN IF p1 = None \/ p2 = None
       THEN /\ last' = Result("add_connection", <<pin1, pin2>>, FALSE, "invalid")
            /\ components' = IF p1 # None THEN AutoAdd(components, p1[1]) ELSE components
            /\ UNCHANGED <<connections, net_names>>
       ELSE LET added == AutoAdd(AutoAdd(components, p1[1]), p2[1])
                conn == SortedPair(format_pin(p1), format_pin(p2))
            IN /\ components' = added
               /\ IF conn \in connections
                  THEN /\ last' = Result("add_connection", <<pin1, pin2>>, FALSE, "exists")
                       /\ UNCHANGED connections
                  ELSE /\ connections' = connections \cup {conn}
                       /\ last' = Result("add_connection", <<pin1, pin2>>, TRUE, "added")
               /\ UNCHANGED net_names

AddConnection(pin1, pin2) ==
    LET p1 == parse_pin(components, pin1)
        p2 == parse_pin(components, pin2)
    IN IF p1 = None \/ p2 = None
       THEN /\ last' = Result("add_connection", <<pin1, pin2>>, FALSE, "invalid")
            /\ UNCHANGED <<components, connections, net_names>>
       ELSE LET added == AutoAdd(AutoAdd(components, p1[1]), p2[1])
                conn == SortedPair(format_pin(p1), format_pin(p2))
            IN /\ components' = added
               /\ IF conn \in connections
                  THEN /\ last' = Result("add_connection", <<pin1, pin2>>, FALSE, "exists")
                       /\ UNCHANGED connections
                  ELSE /\ connections' = connections \cup {conn}
                       /\ last' = Result("add_connection", <<pin1, pin2>>, TRUE, "added")
               /\ UNCHANGED net_names

\* delete_connection without its retry under the ref-1 spelling
AltVariants_NoAlias(p) == <<format_pin(p)>>

\* [ps, f"{p[0]}-1"] for a single-pin pin, [ps] otherwise
AltVariants(p) == IF p[2] = None THEN <<format_pin(p), Dash1(p[1])>> ELSE <<format_pin(p)>>

\* a delete_connection that drops every stored pair of its second pin
DeleteConnection_DropsSecondPin(pin1, pin2) ==
    LET p1 == parse_pin(components, pin1)
        p2 == parse_pin(components, pin2)
    IN IF p1 = None \/ p2 = None
       THEN /\ last' = Result("delete_connection", <<pin1, pin2>>, FALSE, "invalid")
            /\ UNCHANGED <<components, connections, net_names>>
       ELSE LET conn == SortedPair(format_pin(p1), format_pin(p2))
            IN /\ IF conn \in connections
                  THEN /\ connections' = {c \in connections : ~InConn(format_pin(p2), c)}
                       /\ last' = Result("delete_connection", <<pin1, pin2>>, TRUE, "removed")
                  ELSE /\ last' = Result("delete_connection", <<pin1, pin2>>, FALSE, "not found")
                       /\ UNCHANGED connections
               /\ UNCHANGED <<components, net_names>>

DeleteConnection(pin1, pin2) ==
    LET p1 == parse_pin(components, pin1)
        p2 == parse_pin(components, pin2)
    IN IF p1 = None \/ p2 = None
       THEN /\ last' = Result("delete_connection", <<pin1, pin2>>, FALSE, "invalid")
            /\ UNCHANGED <<components, connections, net_names>>
       ELSE LET conn == SortedPair(format_pin(p1), format_pin(p2))
                v1 == AltVariants(p1)
                v2 == AltVariants(p2)
                \* the loop "for v1 ... for v2 ..." in its order, as index pairs
                combos == {<<i, j>> : i \in 1..Len(v1), j \in 1..Len(v2)}
                hits == {k \in combos : SortedPair(v1[k[1]], v2[k[2]]) \in connections}
                first == CHOOSE k \in hits : \A m \in hits :
                             k[1] < m[1] \/ (k[1] = m[1] /\ k[2] <= m[2])
            IN /\ IF conn \in connections
                  THEN /\ connections' = connections \ {conn}
                       /\ last' = Result("delete_connection", <<pin1, pin2>>, TRUE, "removed")
                  ELSE IF hits # {}
                  THEN /\ connections' =
                              connections \ {SortedPair(v1[first[1]], v2[first[2]])}
                       /\ last' = Result("delete_connection", <<pin1, pin2>>, TRUE, "removed")
                  ELSE /\ last' = Result("delete_connection", <<pin1, pin2>>, FALSE, "not found")
                       /\ UNCHANGED connections
               /\ UNCHANGED <<components, net_names>>

\* a rewrite that replaces the from pin only, not the ref-1 spelling
MergeRewrite_FromOnly(conn, p_from, to_str) ==
    LET from_str == format_pin(p_from)
        swap(pin) == IF pin = from_str THEN to_str ELSE pin
    IN SortedPair(swap(conn[1]), swap(conn[2]))

\* merge_pins' rewrite of one stored pair: the from pin, and the ref-1 spelling
\* of its component, become the to pin
MergeRewrite(conn, p_from, to_str) ==
    LET from_str == format_pin(p_from)
        swap(pin) == IF pin = from_str \/ pin = Dash1(p_from[1]) THEN to_str ELSE pin
    IN SortedPair(swap(conn[1]), swap(conn[2]))

\* the merge loop without its "don't add self-connections" test
RECURSIVE MergeLoop_KeepsSelfLoops(_, _, _, _, _)
MergeLoop_KeepsSelfLoops(conns, order, k, p_from, to_str) ==
    IF k > Len(order) THEN conns
    ELSE MergeLoop_KeepsSelfLoops(
             (conns \ {order[k]}) \cup {MergeRewrite(order[k], p_from, to_str)},
             order, k + 1, p_from, to_str)

\* the "for conn in to_update" loop of merge_pins over the pairs order[k..]
RECURSIVE MergeLoop(_, _, _, _, _)
MergeLoop(conns, order, k, p_from, to_str) ==
    IF k > Len(order) THEN conns
    ELSE LET removed == conns \ {order[k]}
             new_conn == MergeRewrite(order[k], p_from, to_str)
             next == IF new_conn[1] # new_conn[2] /\ new_conn \notin removed
                     THEN removed \cup {new_conn}
                     ELSE removed
         IN MergeLoop(next, order, k + 1, p_from, to_str)

\* a selection that looks for the pin as formatted only, not for ref-1
Involving_NoAlias(conns, p) == {c \in conns : InConn(format_pin(p), c)}

\* the stored pairs merge_pins and delete_pin_connections select for pin p
Involving(conns, p) ==
    {c \in conns : InConn(format_pin(p), c) \/ (p[2] = None /\ InConn(Dash1(p[1]), c))}

MergePins(from_pin, to_pin) ==
    LET p_from == parse_pin(components, from_pin)
        p_to == parse_pin(components, to_pin)
    IN IF p_from = None \/ p_to = None
       THEN /\ last' = Result("merge_pins", <<from_pin, to_pin>>, FALSE, "invalid")
            /\ UNCHANGED <<components, connections, net_names>>
       ELSE LET to_update == Involving(connections, p_from)
            IN IF to_update = {}
               THEN /\ last' = Result("merge_pins", <<from_pin, to_pin>>, FALSE, "not found")
                    /\ UNCHANGED <<components, connections, net_names>>
               ELSE /\ \E order \in Orders(to_update) :
                         connections' = MergeLoop(connections, order, 1, p_from, format_pin(p_to))
                    /\ last' = Result("merge_pins", <<from_pin, to_pin>>, TRUE, "merged")
                    /\ UNCHANGED <<components, net_names>>

DeletePinConnections(pin) ==
    LET p == parse_pin(components, pin)
    IN IF p = None
       THEN /\ last' = Result("delete_pin_connections", <<pin>>, FALSE, "invalid")
            /\ UNCHANGED <<components, connections, net_names>>
       ELSE LET to_remove == Involving(connections, p)
            IN IF to_remove = {}
               THEN /\ last' = Result("delete_pin_connections", <<pin>>, FALSE, "not found")
                    /\ UNCHANGED <<components, connections, net_names>>
               ELSE /\ connections' = connections \ to_remove
                    /\ last' = Result("delete_pin_connections", <<pin>>, TRUE, "deleted")
                    /\ UNCHANGED <<components, net_names>>

(***************************************************************************)
(* Net building.  The parent dict of build_nets is a function from pins to *)
(* pins; find and union return the dict they leave behind.  The nets dict  *)
(* is the sequence of its entries [root, pins] in insertion order.         *)
(***************************************************************************)
\* a find whose compression assigns parent[x] = x, cutting x off its root
RECURSIVE find_CompressesToSelf(_, _)
find_CompressesToSelf(parent, x) ==
    LET seen == IF x \in DOMAIN parent THEN parent ELSE (x :> x) @@ parent
    IN IF seen[x] # x
       THEN LET up == find_CompressesToSelf(seen, seen[x])
            IN [root |-> up.root, parent |-> [up.parent EXCEPT ![x] = x]]
       ELSE [root |-> x, parent |-> seen]

\* find(x): the root of x and the parent dict after lazy insertion and path compression
RECURSIVE find(_, _)
find(parent, x) ==
    LET seen == IF x \in DOMAIN parent THEN parent ELSE (x :> x) @@ parent
    IN IF seen[x] # x
       THEN LET up == find(seen, seen[x])
            IN [root |-> up.root, parent |-> [up.parent EXCEPT ![x] = up.root]]
       ELSE [root |-> x, parent |-> seen]

\* a union that re-parents x itself instead of the root of x
union_LinksPin(parent, x, y) ==
    LET fx == find(parent, x)
        fy == find(fx.parent, y)
    IN IF fx.root # fy.root
       THEN [fy.parent EXCEPT ![x] = fy.root]
       ELSE fy.parent

\* union(x, y): the parent dict afterwards
union(parent, x, y) ==
    LET fx == find(parent, x)
        fy == find(fx.parent, y)
    IN IF fx.root # fy.root
       THEN [fy.parent EXCEPT ![fx.root] = fy.root]
       ELSE fy.parent

\* a union loop that leaves out the last pair the iteration yields
RECURSIVE UnionLoop_SkipsLastPair(_, _, _)
UnionLoop_SkipsLastPair(parent, order, k) ==
    IF k >= Len(order) THEN parent
    ELSE UnionLoop_SkipsLastPair(union(parent, order[k][1], order[k][2]), order, k + 1)

\* the loop "for conn in self.connections: union(conn[0], conn[1])" over order[k..]
RECURSIVE UnionLoop(_, _, _)
UnionLoop(parent, order, k) ==
    IF k > Len(order) THEN parent
    ELSE UnionLoop(union(parent, order[k][1], order[k][2]), order, k + 1)

\* nets[root].add(pin) on the defaultdict(set)
NetsAdd(nets, root, pin) ==
    IF \E i \in 1..Len(nets) : nets[i].root = root
    THEN [i \in 1..Len(nets) |->
             IF nets[i].root = root
             THEN [root |-> root, pins |-> nets[i].pins \cup {pin}]
             ELSE nets[i]]
    ELSE Append(nets, [root |-> root, pins |-> {pin}])

\* a grouping loop that files only the first pin of each pair
RECURSIVE GroupLoop_FirstPinOnly(_, _, _, _, _)
GroupLoop_FirstPinOnly(parent, nets, order, k, j) ==
    IF k > Len(order) THEN nets
    ELSE LET f == find(parent, order[k][1])
         IN GroupLoop_FirstPinOnly(f.parent, NetsAdd(nets, f.root, order[k][1]),
                                   order, k + 1, 1)

\* the grouping loop "for conn ...: for pin in conn: root = find(pin); nets[root].add(pin)",
\* from pin j of pair order[k] on
RECURSIVE GroupLoop(_, _, _, _, _)
GroupLoop(parent, nets, order, k, j) ==
    IF k > Len(order) THEN nets
    ELSE LET f == find(parent, order[k][j])
             added == NetsAdd(nets, f.root, order[k][j])
         IN IF j = 1
            THEN GroupLoop(f.parent, added, order, k, 2)
            ELSE GroupLoop(f.parent, added, order, k + 1, 1)

\* build_nets() when iterating self.connections yields the pairs in this order
build_nets(order) == GroupLoop(UnionLoop(<<>>, order, 1), <<>>, order, 1, 1)

BuildNets ==
    /\ \E order \in ConnOrders :
           last' = Result("build_nets", <<>>, build_nets(order), "nets")
    /\ UNCHANGED <<components, connections, net_names>>

\* build_nets() followed step by step.  The frame holds the order in which
\* the set yields its pairs, the position (pc; k: the pair, j: the pin of the
\* pair in the grouping loop), the dicts parent and nets, and px, py of the
\* running union.
Frame(order, pc, k, j, parent, nets, px, py) ==
    [order |-> order, pc |-> pc, k |-> k, j |-> j, parent |-> parent, nets |-> nets,
     px |-> px, py |-> py]

\* the "nets" command enters build_nets: parent = {}
BeginBuildNets ==
    /\ running /\ call = None
    /\ \E order \in ConnOrders :
           call' = Some(Frame(order, IF Len(order) = 0 THEN "return" ELSE "find_x",
                              1, 1, <<>>, <<>>, None, None))
    /\ last' = Result("build_nets", <<>>, None, "running")
    /\ UNCHANGED <<components, connections, net_names, files, running, iteration>>

\* px = find(x) in union(conn[0], conn[1])
FindX ==
    /\ call # None /\ call[1].pc = "find_x"
    /\ LET fr == call[1]
           f == find(fr.parent, fr.order[fr.k][1])
       IN call' = Some([fr EXCEPT !.parent = f.parent, !.px = f.root, !.pc = "find_y"])
    /\ UNCHANGED <<components, connections, net_names, last, files, running, iteration>>

\* py = find(y)
FindY ==
    /\ call # None /\ call[1].pc = "find_y"
    /\ LET fr == call[1]
           f == find(fr.parent, fr.order[fr.k][2])
       IN call' = Some([fr EXCEPT !.parent = f.parent, !.py = f.root, !.pc = "link"])
    /\ UNCHANGED <<components, connections, net_names, last, files, running, iteration>>

\* a union that assigns parent[px] = y, the pin itself, whatever px and py are
Link_ParentsRootToPin ==
    /\ call # None /\ call[1].pc = "link"
    /\ LET fr == call[1]
           linked == [fr.parent EXCEPT ![fr.px] = fr.order[fr.k][2]]
       IN call' = Some(IF fr.k < Len(fr.order)
                       THEN [fr EXCEPT !.parent = linked, !.k = fr.k + 1, !.pc = "find_x"]
                       ELSE [fr EXCEPT !.parent = linked, !.k = 1, !.j = 1, !.pc = "group"])
    /\ UNCHANGED <<components, connections, net_names, last, files, running, iteration>>

\* "if px != py: parent[px] = py", then the next pair or the grouping loop
Link ==
    /\ call # None /\ call[1].pc = "link"
    /\ LET fr == call[1]
           linked == IF fr.px # fr.py THEN [fr.parent EXCEPT ![fr.px] = fr.py] ELSE fr.parent
       IN call' = Some(IF fr.k < Len(fr.order)
                       THEN [fr EXCEPT !.parent = linked, !.k = fr.k + 1, !.pc = "find_x"]
                       ELSE [fr EXCEPT !.parent = linked, !.k = 1, !.j = 1, !.pc = "group"])
    /\ UNCHANGED <<components, connections, net_names, last, files, running, iteration>>

\* "root = find(pin); nets[root].add(pin)" for one pin of one pair
Group ==
    /\ call # None /\ call[1].pc = "group"
    /\ LET fr == call[1]
           f == find(fr.parent, fr.order[fr.k][fr.j])
           added == NetsAdd(fr.nets, f.root, fr.order[fr.k][fr.j])
       IN call' = Some(IF fr.j = 1
                       THEN [fr EXCEPT !.parent = f.parent, !.nets = added, !.j = 2]
                       ELSE IF fr.k < Len(fr.order)
                       THEN [fr EXCEPT !.parent = f.parent, !.nets = added, !.k = fr.k + 1, !.j = 1]
                       ELSE [fr EXCEPT !.parent = f.parent, !.nets = added, !.pc = "return"])
    /\ UNCHANGED <<components, connections, net_names, last, files, running, iteration>>

\* "return dict(nets)"
ReturnNets ==
    /\ call # None /\ call[1].pc = "return"
    /\ last' = Result("build_nets", <<>>, call[1].nets, "nets")
    /\ call' = None
    /\ UNCHANGED <<components, connections, net_names, files, running, iteration>>

\* a step of the running build_nets
BuildStep == FindX \/ FindY \/ Link \/ Group \/ ReturnNets

\* str(None)
NoneStr == <<"N", "o", "n", "e">>

\* a name_net that files the name under the pin it was given, not the root
NameNet_KeyedByPin(pin, name) ==
    LET p == parse_pin(components, pin)
    IN IF p = None
       THEN /\ last' = Result("name_net", <<pin, name>>, FALSE, "invalid")
            /\ UNCHANGED <<components, connections, net_names>>
       ELSE \E order \in ConnOrders :
              LET nets == build_nets(order)
                  pin_str == p[1] \o <<"-">> \o (IF p[2] = None THEN NoneStr ELSE p[2][1])
                  holding == {i \in 1..Len(nets) : pin_str \in nets[i].pins}
                  first == CHOOSE i \in holding : \A j \in holding : i <= j
              IN IF holding # {}
                 THEN /\ net_names' = (pin_str :> name) @@ net_names
                      /\ last' = Result("name_net", <<pin, name>>, TRUE, "named")
                      /\ UNCHANGED <<components, connections>>
                 ELSE /\ last' = Result("name_net", <<pin, name>>, FALSE, "not in any net")
                      /\ UNCHANGED <<components, connections, net_names>>

NameNet(pin, name) ==
    LET p == parse_pin(components, pin)
    IN IF p = None
       THEN /\ last' = Result("name_net", <<pin, name>>, FALSE, "invalid")
            /\ UNCHANGED <<components, connections, net_names>>
       ELSE \E order \in ConnOrders :
              LET nets == build_nets(order)
                  pin_str == p[1] \o <<"-">> \o (IF p[2] = None THEN NoneStr ELSE p[2][1])
                  holding == {i \in 1..Len(nets) : pin_str \in nets[i].pins}
                  first == CHOOSE i \in holding : \A j \in holding : i <= j
              IN IF holding # {}
                 THEN /\ net_names' = (nets[first].root :> name) @@ net_names
                      /\ last' = Result("name_net", <<pin, name>>, TRUE, "named")
                      /\ UNCHANGED <<components, connections>>
                 ELSE /\ last' = Result("name_net", <<pin, name>>, FALSE, "not in any net")
                      /\ UNCHANGED <<components, connections, net_names>>

\* parse_pin(pin) followed by format_pin of its result, as every command that
\* takes a pin calls them
ParsePin(pin) ==
    /\ last' = Result("parse_pin", <<pin>>, parse_pin(components, pin),
                      format_pin(parse_pin(components, pin)))
    /\ UNCHANGED <<components, connections, net_names>>

\* normalize_ref called on the ref that was typed
NormalizeRef ==
    /\ last.op = "typed"
    /\ last' = Result("normalize_ref", last.args, normalize_ref(last.args[1]), "")
    /\ UNCHANGED <<components, connections, net_names>>

(***************************************************************************)
(* Utilities.                                                              *)
(***************************************************************************)
\* sorted() of a set of distinct strings
RECURSIVE sorted(_)
sorted(S) ==
    IF S = {} THEN <<>>
    ELSE LET least == CHOOSE x \in S : \A y \in S : x = y \/ StrLess(x, y)
         IN <<least>> \o sorted(S \ {least})

\* the inner loop of get_remaining_pins: the pins pin_num..pins of ref that
\* are not in connected
RECURSIVE RemainingOf(_, _, _, _)
RemainingOf(ref, pin_num, pins, connected) ==
    IF pin_num > pins THEN <<>>
    ELSE LET pin_str == ref \o <<"-">> \o str(pin_num)
         IN (IF pin_str \notin connected THEN <<<<ref, pin_num>>>> ELSE <<>>)
                \o RemainingOf(ref, pin_num + 1, pins, connected)

\* a get_remaining_pins that skips no single-pin component
RECURSIVE RemainingLoop_ListsSinglePin(_, _, _, _, _)
RemainingLoop_ListsSinglePin(comps, refs, k, filter_prefix, connected) ==
    IF k > Len(refs) THEN <<>>
    ELSE LET ref == refs[k]
             skip == \/ comps[ref].pins < 1
                     \/ /\ filter_prefix # None /\ filter_prefix[1] # <<>>
                        /\ ~startswith(ref, upper(filter_prefix[1]))
         IN (IF skip THEN <<>> ELSE RemainingOf(ref, 1, comps[ref].pins, connected))
                \o RemainingLoop_ListsSinglePin(comps, refs, k + 1, filter_prefix, connected)

\* the outer loop of get_remaining_pins over the components refs[k..]
RECURSIVE RemainingLoop(_, _, _, _, _)
RemainingLoop(comps, refs, k, filter_prefix, connected) ==
    IF k > Len(refs) THEN <<>>
    ELSE LET ref == refs[k]
             skip == \/ comps[ref].pins <= 1
                     \/ /\ filter_prefix # None /\ filter_prefix[1] # <<>>
                        /\ ~startswith(ref, upper(filter_prefix[1]))
         IN (IF skip THEN <<>> ELSE RemainingOf(ref, 1, comps[ref].pins, connected))
                \o RemainingLoop(comps, refs, k + 1, filter_prefix, connected)

\* get_remaining_pins(filter_prefix): the list of (ref, pin_num), without the
\* component value the code appends to each
get_remaining_pins(comps, conns, filter_prefix) ==
    LET connected == UNION {{c[1], c[2]} : c \in conns}
    IN RemainingLoop(comps, sorted(DOMAIN comps), 1, filter_prefix, connected)

GetRemainingPins(filter_prefix) ==
    /\ last' = Result("get_remaining_pins", <<filter_prefix>>,
                      get_remaining_pins(components, connections, filter_prefix), "remaining")
    /\ UNCHANGED <<components, connections, net_names>>

\* root.replace('-', '_')
replace_dash(root) == [i \in 1..Len(root) |-> IF root[i] = "-" THEN "_" ELSE root[i]]

\* the name export_named_nets gives the net of this root
export_name(names, root) ==
    IF root \in DOMAIN names THEN names[root]
    ELSE <<"N", "E", "T", "_">> \o replace_dash(root)

\* the loop of export_named_nets over nets[k..]: output["nets"][name] is
\* assigned for each net in turn
RECURSIVE ExportLoop(_, _, _, _)
ExportLoop(names, nets, k, output) ==
    IF k > Len(nets) THEN output
    ELSE LET entry == [pin_count |-> Cardinality(nets[k].pins), pins |-> sorted(nets[k].pins)]
         IN ExportLoop(names, nets, k + 1,
                       (export_name(names, nets[k].root) :> entry) @@ output)

\* output["nets"] of export_named_nets when build_nets visits the pairs in
\* this order
export_named_nets(names, order) == ExportLoop(names, build_nets(order), 1, <<>>)

ExportNamedNets ==
    /\ \E order \in ConnOrders :
           last' = Result("export_named_nets", <<>>, export_named_nets(net_names, order), "exported")
    /\ UNCHANGED <<components, connections, net_names>>

(***************************************************************************)
(* Searching the store.                                                    *)
(***************************************************************************)
\* (a, b) < (c, d) as Python compares tuples of str
PairLess(x, y) == StrLess(x[1], y[1]) \/ (x[1] = y[1] /\ StrLess(x[2], y[2]))

\* sorted(S) for a collection S of pairs without repeats
RECURSIVE sorted_connections(_)
sorted_connections(S) ==
    IF S = {} THEN <<>>
    ELSE LET least == CHOOSE x \in S : \A y \in S : x = y \/ PairLess(x, y)
         IN <<least>> \o sorted_connections(S \ {least})

\* "search in s" for two strings: search occurs in s as a substring
InStr(search, s) ==
    \E i \in 0..(Len(s) - Len(search)) : SubSeq(s, i + 1, i + Len(search)) = search

\* the list search_terms of find_connections
search_terms(comps, pin_or_ref) ==
    LET original == strip(upper(pin_or_ref))
    IN IF Contains(original, "-") \/ Contains(original, ".")
       THEN LET p == parse_pin(comps, original)
            IN IF p # None
               THEN IF p[2] = None THEN <<format_pin(p), Dash1(p[1])>>
                    ELSE <<format_pin(p)>>
               ELSE <<original>>
       ELSE IF normalize_ref(original) # original
            THEN <<normalize_ref(original), original, original>>
            ELSE <<normalize_ref(original), original>>

\* find_connections(pin_or_ref): the stored pairs one of whose ends contains a
\* search term, sorted
find_connections(comps, conns, pin_or_ref) ==
    LET terms == search_terms(comps, pin_or_ref)
    IN sorted_connections({conn \in conns :
           \E i \in 1..Len(terms) : InStr(terms[i], conn[1]) \/ InStr(terms[i], conn[2])})

FindConnections(pin_or_ref) ==
    /\ last' = Result("find_connections", <<pin_or_ref>>,
                      find_connections(components, connections, pin_or_ref), "found")
    /\ UNCHANGED <<components, connections, net_names>>

(***************************************************************************)
(* Persistence and the command loop.  files holds, for each of the three   *)
(* project files, None when the file does not exist and Some(content)      *)
(* otherwise.                                                              *)
(***************************************************************************)
\* the files save() writes, in the order it writes them: the nets file only
\* when some net has a name
SaveWrites(names) ==
    IF DOMAIN names # {} THEN <<"components", "connections", "nets">>
    ELSE <<"components", "connections">>

\* what save() puts in each file
SaveContent(comps, conns, names) ==
    [components |-> comps, connections |-> sorted_connections(conns), nets |-> names]

\* the project files after save() has completed its first k writes; k below
\* Len(SaveWrites(names)) is a save() whose next open() raised
save(disk, comps, conns, names, k) ==
    [f \in DOMAIN disk |->
        IF \E i \in 1..k : SaveWrites(names)[i] = f
        THEN Some(SaveContent(comps, conns, names)[f])
        ELSE disk[f]]

\* load(): a missing file leaves the field as __init__ set it
load_components(disk) == IF disk.components = None THEN <<>> ELSE disk.components[1]

\* set(tuple(c) for c in data["connections"])
load_connections(disk) ==
    IF disk.connections = None THEN {}
    ELSE {disk.connections[1][i] : i \in 1..Len(disk.connections[1])}

\* a load() that never reads the nets file
load_net_names_NeverReads(disk) == <<>>

load_net_names(disk) == IF disk.nets = None THEN <<>> ELSE disk.nets[1]

\* the "save" command: an exception of save() is caught by the loop's
\* "except Exception", printed, and the loop reads the next command
SaveCommand ==
    /\ running
    /\ \E k \in 0..Len(SaveWrites(net_names)) :
          LET ok == k = Len(SaveWrites(net_names))
          IN /\ files' = save(files, components, connections, net_names, k)
             /\ last' = Result("save", <<>>, ok, IF ok THEN "saved" ELSE "error")
    /\ UNCHANGED <<components, connections, net_names, running, iteration, call>>

\* "quit": save() and then break; an exception of save() skips the break and
\* is caught like any other
QuitCommand ==
    /\ running
    /\ \E k \in 0..Len(SaveWrites(net_names)) :
          LET ok == k = Len(SaveWrites(net_names))
          IN /\ files' = save(files, components, connections, net_names, k)
             /\ last' = Result("quit", <<>>, ok, IF ok THEN "goodbye" ELSE "error")
             /\ running' = ~ok
    /\ UNCHANGED <<components, connections, net_names, iteration, call>>

\* Ctrl-C at the prompt: save() runs in the KeyboardInterrupt handler, where
\* an exception is caught by nothing and ends main with a traceback
Interrupt ==
    /\ running
    /\ \E k \in 0..Len(SaveWrites(net_names)) :
          LET ok == k = Len(SaveWrites(net_names))
          IN /\ files' = save(files, components, connections, net_names, k)
             /\ last' = Result("interrupt", <<>>, ok, IF ok THEN "goodbye" ELSE "traceback")
    /\ running' = FALSE
    /\ UNCHANGED <<components, connections, net_names, iteration, call>>

\* main started again on the project directory: PCBProject.__init__ and
\* load(); the new process iterates its set in an order of its own
NewSession ==
    /\ components' = load_components(files)
    /\ connections' = load_connections(files)
    /\ net_names' = load_net_names(files)
    /\ last' = Result("load", <<>>, TRUE, "loaded")
    /\ running' = TRUE
    /\ call' = None
    /\ iteration' \in IF iteration = None THEN {None}
                      ELSE {Some(o) : o \in Orders(load_connections(files))}
    /\ UNCHANGED files

(***************************************************************************)
(* The session: the commands a user can type, over a small vocabulary.     *)
(***************************************************************************)
\* component refs as typed
RefTokens == {<<"r", "1">>, <<"T", "P", "1">>}
\* pin tokens as typed
PinTokens == {<<"r", "1", "-", "1">>, <<"R", "1", ".", "2">>,
              <<"T", "P", "1">>, <<"T", "P", "1", "-", "1">>}
\* pin counts given to cadd (None: take the default) and to cedit
PinCounts == {1, 2}
\* net names
NetNames == {<<"V", "C", "C">>, <<"G", "N", "D">>}

\* the project directory with none of the three project files
NoFiles == [components |-> None, connections |-> None, nets |-> None]

\* a new project with no files on disk
Init ==
    /\ components = <<>>
    /\ connections = {}
    /\ net_names = <<>>
    /\ last = Result("init", <<>>, TRUE, "")
    /\ files = NoFiles
    /\ running = TRUE
    /\ iteration = None
    /\ call = None

\* the iteration order of self.connections after a command: as it was when
\* the command left the set alone, any order of the new set otherwise
Reiterate ==
    IF iteration = None \/ connections' = connections THEN UNCHANGED iteration
    ELSE iteration' \in {Some(o) : o \in Orders(connections')}

\* a command read at the prompt that touches no project file and returns to
\* the prompt
InPrompt == running /\ call = None /\ UNCHANGED <<files, running, call>> /\ Reiterate

\* the connection commands: add, del <pin1> <pin2>, merge, del <pin>
ConnNext ==
    \/ \E a, b \in PinTokens : AddConnection(a, b) /\ Cardinality(connections') <= MaxConns /\ InPrompt
    \/ \E a, b \in PinTokens : DeleteConnection(a, b) /\ InPrompt
    \/ \E a, b \in PinTokens : MergePins(a, b) /\ InPrompt
    \/ \E a \in PinTokens : DeletePinConnections(a) /\ InPrompt

\* a session of connection commands on a new project
ConnSpec == Init /\ [][ConnNext]_vars

\* add, del <pin1> <pin2> and the "nets" command
NetNext ==
    \/ \E a, b \in PinTokens : AddConnection(a, b) /\ Cardinality(connections') <= MaxNetConns /\ InPrompt
    \/ \E a, b \in PinTokens : DeleteConnection(a, b) /\ InPrompt
    \/ BuildNets /\ InPrompt

\* a session that adds and removes connections and recomputes the nets at will
NetSpec == Init /\ [][NetNext]_vars

\* the pins typed in a naming session; TP1-1 is read as the pin of a
\* single-pin component once add has auto-added TP01
NameTokens == {<<"r", "1", "-", "1">>, <<"R", "1", ".", "2">>, <<"T", "P", "1", "-", "1">>}

\* add and the "name" command
NameNext ==
    \/ \E a, b \in NameTokens : AddConnection(a, b) /\ Cardinality(connections') <= MaxConns /\ InPrompt
    \/ \E a \in NameTokens, name \in NetNames :
           NameNet(a, name) /\ Cardinality(DOMAIN net_names') <= MaxNames /\ InPrompt

\* a session that adds connections and names nets
NameSpec == Init /\ [][NameNext]_vars

\* pin tokens of a session with no single-pin component: the last one never
\* parses
CmdTokens == {<<"r", "1", "-", "1">>, <<"R", "1", ".", "2">>, <<"T", "P", "1">>}

\* the five commands that take a pin
CmdNext ==
    \/ \E a, b \in CmdTokens : AddConnection(a, b) /\ Cardinality(connections') <= MaxConns /\ InPrompt
    \/ \E a, b \in CmdTokens : DeleteConnection(a, b) /\ InPrompt
    \/ \E a, b \in CmdTokens : MergePins(a, b) /\ InPrompt
    \/ \E a \in CmdTokens : DeletePinConnections(a) /\ InPrompt
    \/ \E a \in CmdTokens, name \in NetNames :
           NameNet(a, name) /\ Cardinality(DOMAIN net_names') <= MaxNames /\ InPrompt

\* a session of the commands that take a pin
CmdSpec == Init /\ [][CmdNext]_vars

\* prefixes typed to "remaining": none, an empty one, r, TP
Prefixes == {None, Some(<<>>), Some(<<"r">>), Some(<<"T", "P">>)}

\* cadd, cedit, add and the "remaining" command
RemNext ==
    \/ \E ref \in RefTokens, pins \in {None} \cup {Some(n) : n \in PinCounts} :
           AddComponent(ref, pins) /\ InPrompt
    \/ \E ref \in RefTokens, n \in PinCounts : EditComponent(ref, n) /\ InPrompt
    \/ \E a, b \in PinTokens : AddConnection(a, b) /\ Cardinality(connections') <= MaxConns /\ InPrompt
    \/ \E f \in Prefixes : GetRemainingPins(f) /\ InPrompt

\* a session that registers components, connects pins and lists the pins left
RemSpec == Init /\ [][RemNext]_vars

\* add, name and the "export" of the named nets
ExportNext ==
    \/ NameNext
    \/ ExportNamedNets /\ InPrompt

\* a session that adds connections, names nets and exports them
ExportSpec == Init /\ [][ExportNext]_vars

\* the characters of typed refs
RefChars == {" ", "-", "d", "R", "0", "1", "4"}
\* every string of at most MaxRefLen of them
RefInputs == UNION {[1..n -> RefChars] : n \in 0..MaxRefLen}

\* a new project and a ref typed at the prompt
NormInit ==
    /\ components = <<>>
    /\ connections = {}
    /\ net_names = <<>>
    /\ \E ref \in RefInputs : last = Result("typed", <<ref>>, None, "")
    /\ files = NoFiles
    /\ running = TRUE
    /\ iteration = None
    /\ call = None

NormNext == NormalizeRef /\ InPrompt

\* normalize_ref applied to every typed ref
NormSpec == NormInit /\ [][NormNext]_vars

\* refs typed to cadd in a session that parses pins: the last one holds a
\* separator
ParseRefs == {<<"r", "1">>, <<"T", "P", "1">>, <<"r", "1", "-", "1">>}
\* tokens given to parse_pin
ParseTokens == {<<"r", "1", "-", "1">>, <<"R", "1", ".", "2">>, <<"T", "P", "1">>, <<"r", "1">>}

\* cadd and the parsing of a pin token
ParseNext ==
    \/ \E ref \in ParseRefs, pins \in {None} \cup {Some(n) : n \in PinCounts} :
           AddComponent(ref, pins) /\ InPrompt
    \/ \E pin \in ParseTokens : ParsePin(pin) /\ InPrompt

\* a session that registers components and parses pin tokens
ParseSpec == Init /\ [][ParseNext]_vars

\* add, del <pin1> <pin2>, save, quit and Ctrl-C
SessionNext ==
    \/ \E a, b \in CmdTokens : AddConnection(a, b) /\ Cardinality(connections') <= MaxConns /\ InPrompt
    \/ \E a, b \in CmdTokens : DeleteConnection(a, b) /\ InPrompt
    \/ SaveCommand
    \/ QuitCommand
    \/ Interrupt

\* a session that may be saved, quit or interrupted, with writes that may fail
SessionSpec == Init /\ [][SessionNext]_vars

\* the tokens typed to add, del and find: a pin with each separator and a bare ref
FindTokens == {<<"r", "1", "-", "1">>, <<"R", "1", "_", "2">>, <<"T", "P", "1">>, <<"r", "1">>}

\* add, del <pin1> <pin2> and the "find" command
FindNext ==
    \/ \E a, b \in FindTokens : AddConnection(a, b) /\ Cardinality(connections') <= MaxConns /\ InPrompt
    \/ \E a, b \in FindTokens : DeleteConnection(a, b) /\ InPrompt
    \/ \E a \in FindTokens : FindConnections(a) /\ InPrompt

\* a session of add, del and find on a new project
FindSpec == Init /\ [][FindNext]_vars

\* cadd, cdel and the four connection commands
TableNext ==
    \/ \E ref \in RefTokens, pins \in PinCounts : AddComponent(ref, Some(pins)) /\ InPrompt
    \/ \E ref \in RefTokens : DeleteComponent(ref) /\ InPrompt
    \/ \E a, b \in CmdTokens : AddConnection(a, b) /\ Cardinality(connections') <= MaxConns /\ InPrompt
    \/ \E a, b \in CmdTokens : DeleteConnection(a, b) /\ InPrompt
    \/ \E a, b \in CmdTokens : MergePins(a, b) /\ InPrompt
    \/ \E a \in CmdTokens : DeletePinConnections(a) /\ InPrompt

\* a session that edits the component table and the store of a new project
TableSpec == Init /\ [][TableNext]_vars

\* tokens of two components of which one identifier holds the other's typed
\* form: R1 and R10
NearTokens == {<<"r", "1">>, <<"r", "1", "-", "1">>,
               <<"R", "1", "0", "-", "1">>, <<"R", "1", "0", ".", "2">>}

\* add and the "find" command over these tokens
NearNext ==
    \/ \E a, b \in NearTokens : AddConnection(a, b) /\ Cardinality(connections') <= MaxConns /\ InPrompt
    \/ \E a \in NearTokens : FindConnections(a) /\ InPrompt

\* a session of add and find on a new project
NearSpec == Init /\ [][NearNext]_vars

\* a new project in a specification that follows the iteration order
StableInit ==
    /\ components = <<>>
    /\ connections = {}
    /\ net_names = <<>>
    /\ last = Result("init", <<>>, TRUE, "")
    /\ files = NoFiles
    /\ running = TRUE
    /\ iteration = Some(<<>>)
    /\ call = None

\* the pins typed in these sessions: three pins that can form a net of which
\* either outer pin may become the root
StableTokens == {<<"r", "1", "-", "1">>, <<"R", "1", ".", "2">>, <<"T", "P", "1", "-", "1">>}

\* connections are entered while no net has a name; then nets are named and
\* recomputed, the session is quit and started again
StableNext ==
    \/ \E a, b \in StableTokens :
           /\ DOMAIN net_names = {}
           /\ AddConnection(a, b) /\ Cardinality(connections') <= MaxConns /\ InPrompt
    \/ \E a \in StableTokens :
           NameNet(a, <<"V", "C", "C">>) /\ InPrompt
    \/ BuildNets /\ InPrompt
    \/ QuitCommand
    \/ ~running /\ NewSession

\* sessions on one project directory in which the connection set is left
\* alone once a net has a name
StableSpec == StableInit /\ [][StableNext]_vars

\* add, and the "nets" command followed step by step
ForestNext ==
    \/ \E a, b \in StableTokens :
           AddConnection(a, b) /\ Cardinality(connections') <= MaxNetConns /\ InPrompt
    \/ BeginBuildNets
    \/ FindX
    \/ FindY
    \/ Link
    \/ Group
    \/ ReturnNets

\* a session of add and nets on a new project; a build_nets that has started
\* keeps running: nothing in it waits
ForestSpec == Init /\ [][ForestNext]_vars /\ WF_vars(BuildStep)

\* every command of the session
Next ==
    \/ \E ref \in RefTokens, pins \in {None} \cup {Some(n) : n \in PinCounts} :
           AddComponent(ref, pins) /\ InPrompt
    \/ \E ref \in RefTokens, n \in PinCounts : EditComponent(ref, n) /\ InPrompt
    \/ \E ref \in RefTokens : DeleteComponent(ref) /\ InPrompt
    \/ ConnNext
    \/ BuildNets /\ InPrompt
    \/ \E a \in PinTokens, name \in NetNames :
           NameNet(a, name) /\ Cardinality(DOMAIN net_names') <= MaxNames /\ InPrompt
    \/ ExportNamedNets /\ InPrompt
    \/ \E f \in Prefixes : GetRemainingPins(f) /\ InPrompt

\* a whole session on a new project
Spec == Init /\ [][Next]_vars

(***************************************************************************)
(* Properties.                                                             *)
(***************************************************************************)
\* the pin tokens of the vocabulary, for naming a call
T_r1_1 == <<"r", "1", "-", "1">>
T_R1_2 == <<"R", "1", ".", "2">>
T_TP1 == <<"T", "P", "1">>
T_TP1_1 == <<"T", "P", "1", "-", "1">>

\* the endpoints of the stored connections
Endpoints(conns) == UNION {{c[1], c[2]} : c \in conns}

\* a <= b lexicographically, stated by the first position where they differ
LexLeq(a, b) ==
    \/ a = b
    \/ \E k \in 1..Len(b) :
          /\ \A i \in 1..(k - 1) : i <= Len(a) /\ a[i] = b[i]
          /\ k > Len(a) \/ (k - 1 < Len(a) /\ Code[a[k]] < Code[b[k]])

\* C1: after any sequence of add_connection, delete_connection,
\* delete_pin_connections and merge_pins calls on an empty store, no stored
\* pair has two equal endpoints.
C1_NoSelfLoop == \A c \in connections : c[1] # c[2]

\* C2: after any sequence of the four connection calls every stored pair is in
\* lexicographic order, so the store never holds both (a,b) and (b,a).
C2_PairsSorted ==
    /\ \A c \in connections : LexLeq(c[1], c[2])
    /\ \A c, d \in connections : (c[1] = d[2] /\ c[2] = d[1]) => c = d

\* an add_connection that had to swap its two pins has stored a pair
C2_Witness ==
    /\ last.op = "add_connection" /\ last.ret = TRUE
    /\ last.args = <<T_TP1_1, T_r1_1>>
    /\ <<<<"R", "0", "1", "-", "1">>, <<"T", "P", "0", "1", "-", "1">>>> \in connections

\* C3: add_connection(A,B) followed by add_connection(B,A), both pins parsing
\* in both calls: the second call reports a duplicate and leaves the store as
\* the first call left it.
C3_AddOrderIndependent ==
    [][(/\ last.op = "add_connection" /\ last.msg # "invalid"
        /\ last'.op = "add_connection" /\ last'.msg # "invalid"
        /\ last'.args = <<last.args[2], last.args[1]>>)
       => (last'.msg = "exists" /\ last'.ret = FALSE /\ connections' = connections)]_vars

\* C4: an add_connection that reports a duplicate leaves the connection set,
\* the component table and the net-name registry as they were.
C4_DuplicateIsNoOp ==
    [][(last'.op = "add_connection" /\ last'.msg = "exists")
       => UNCHANGED <<connections, components, net_names>>]_vars

\* the pin a stored string denotes: REF-1 of a component now registered with
\* one pin is the pin REF
Denotes(pin) ==
    IF \E ref \in DOMAIN components : IsSinglePin(components, ref) /\ pin = Dash1(ref)
    THEN CHOOSE ref \in DOMAIN components : pin = Dash1(ref)
    ELSE pin

\* C5: the store never holds two distinct pairs that denote the same two pins
\* once REF and REF-1 of a single-pin component are identified.
C5_NoAliasDuplicate ==
    \A c, d \in connections :
        {Denotes(c[1]), Denotes(c[2])} = {Denotes(d[1]), Denotes(d[2])} => c = d

\* C6: after merge_pins(from, to) succeeds with from and to different pins,
\* from, and REF-1 when from is the pin of a single-pin component REF, is an
\* endpoint of no stored connection.
C6_FromPinGone ==
    (last.op = "merge_pins" /\ last.ret = TRUE) =>
        LET p_from == parse_pin(components, last.args[1])
            p_to == parse_pin(components, last.args[2])
        IN p_from # p_to =>
              /\ format_pin(p_from) \notin Endpoints(connections)
              /\ p_from[2] = None => Dash1(p_from[1]) \notin Endpoints(connections)

\* a merge from the pin of a single-pin component has moved connections
C6_Witness ==
    /\ last.op = "merge_pins" /\ last.ret = TRUE
    /\ parse_pin(components, last.args[1]) # parse_pin(components, last.args[2])
    /\ parse_pin(components, last.args[1])[2] = None
    /\ format_pin(parse_pin(components, last.args[2])) \in Endpoints(connections)

\* C7: merge_pins(from, to) moves every pair (from, o), o neither from nor to,
\* to the pair (to, o), whatever pin o is.
C7_MergeMovesEveryPair ==
    [][(last'.op = "merge_pins" /\ last'.ret = TRUE) =>
          LET from_str == format_pin(parse_pin(components, last'.args[1]))
              to_str == format_pin(parse_pin(components, last'.args[2]))
          IN \A c \in connections : \A k \in 1..2 :
                (c[k] = from_str /\ c[3 - k] # from_str /\ c[3 - k] # to_str)
                    => SortedPair(to_str, c[3 - k]) \in connections']_vars

\* C8: merge_pins(from, to) removes the pair that connects from to to, inserts
\* no pair (to, to) and no other self-loop, and keeps no self-loop on from.
C8_MergeNoSelfLoop ==
    [][(last'.op = "merge_pins" /\ last'.ret = TRUE) =>
          LET p_from == parse_pin(components, last'.args[1])
              from_str == format_pin(p_from)
              to_str == format_pin(parse_pin(components, last'.args[2]))
          IN /\ SortedPair(from_str, to_str) \notin connections'
             /\ p_from[2] = None => SortedPair(Dash1(p_from[1]), to_str) \notin connections'
             /\ <<from_str, from_str>> \notin connections'
             /\ \A c \in connections' \ connections : c[1] # c[2]]_vars

\* a merge whose every rewritten pair collapsed: the store held only pairs
\* between from and to, and is empty afterwards
C8_Witness ==
    /\ last.op = "merge_pins" /\ last.ret = TRUE
    /\ parse_pin(components, last.args[1]) # parse_pin(components, last.args[2])
    /\ connections = {}

\* C9: build_nets returns a partition of the endpoints: every endpoint is in
\* exactly one net, the nets together hold exactly the endpoints, and
\* distinct nets are disjoint.
C9_NetsPartition ==
    last.op = "build_nets" =>
        LET nets == last.ret
        IN /\ \A pin \in Endpoints(connections) :
                 Cardinality({i \in 1..Len(nets) : pin \in nets[i].pins}) = 1
           /\ UNION {nets[i].pins : i \in 1..Len(nets)} = Endpoints(connections)
           /\ \A i, j \in 1..Len(nets) : i # j => nets[i].pins \cap nets[j].pins = {}
           /\ \A i \in 1..Len(nets) : nets[i].pins # {}

\* the nets of a store of three pairs fall into two nets
C9_Witness ==
    /\ last.op = "build_nets"
    /\ Cardinality(connections) = 3
    /\ Len(last.ret) = 2

\* pins a and b are linked by a path of at most n stored connections
RECURSIVE Linked(_, _, _)
Linked(a, b, n) ==
    \/ a = b
    \/ /\ n > 0
       /\ \E c \in connections :
             \/ c[1] = a /\ Linked(c[2], b, n - 1)
             \/ c[2] = a /\ Linked(c[1], b, n - 1)

\* C10: two endpoints are in the same net iff a path of stored connections
\* links them.
C10_NetsAreComponents ==
    last.op = "build_nets" =>
        LET nets == last.ret
        IN \A a, b \in Endpoints(connections) :
              (\E i \in 1..Len(nets) : a \in nets[i].pins /\ b \in nets[i].pins)
                  <=> Linked(a, b, Cardinality(connections))

\* a net of three pins joined by a chain of two connections, none direct
\* between its ends
C10_Witness ==
    /\ last.op = "build_nets"
    /\ \E i \in 1..Len(last.ret) : \E a, b \in last.ret[i].pins :
          /\ a # b
          /\ <<a, b>> \notin connections /\ <<b, a>> \notin connections
          /\ Cardinality(last.ret[i].pins) = 3

\* the pin sets of the nets build_nets returns when it visits the pairs in this order
NetFamily(order) == {build_nets(order)[i].pins : i \in 1..Len(build_nets(order))}

\* the store holds exactly the chain A~B, B~C of three different pins
Chain(conns, A, B, C) ==
    /\ A # B /\ C # A /\ C # B
    /\ conns = {SortedPair(A, B), SortedPair(B, C)}

\* C11 as stated: with exactly A~B and B~C stored, after
\* delete_connection(A, B) build_nets returns the nets {A} and {B, C}.
C11_SplitListsLonePin ==
    [][(last'.op = "delete_connection" /\ last'.ret = TRUE) =>
          LET A == format_pin(parse_pin(components, last'.args[1]))
              B == format_pin(parse_pin(components, last'.args[2]))
          IN \A C \in Endpoints(connections) :
                Chain(connections, A, B, C) =>
                    \A order \in Orders(connections') :
                        NetFamily(order) = {{A}, {B, C}}]_vars

\* C11: with exactly A~B and B~C stored, after delete_connection(A, B)
\* build_nets returns the one net {B, C}, and A, now an endpoint of no stored
\* pair, is in no net.
C11_SplitDropsLonePin ==
    [][(last'.op = "delete_connection" /\ last'.ret = TRUE) =>
          LET A == format_pin(parse_pin(components, last'.args[1]))
              B == format_pin(parse_pin(components, last'.args[2]))
          IN \A C \in Endpoints(connections) :
                Chain(connections, A, B, C) =>
                    \A order \in Orders(connections') :
                        /\ NetFamily(order) = {{B, C}}
                        /\ \A net \in NetFamily(order) : A \notin net]_vars

\* delete_connection(A, B) has just cut A off a chain: B~C is what is left
C11_Witness ==
    /\ last.op = "delete_connection" /\ last.ret = TRUE
    /\ LET A == format_pin(parse_pin(components, last.args[1]))
           B == format_pin(parse_pin(components, last.args[2]))
       IN /\ A # B
          /\ parse_pin(components, last.args[1])[2] # None
          /\ parse_pin(components, last.args[2])[2] # None
          /\ \E C \in Endpoints(connections) \ {A, B} : connections = {SortedPair(B, C)}

\* the strings a parsed pin may be stored under: its formatted form, and REF-1
\* when it is the pin of a single-pin component REF
Spellings(p) == {format_pin(p)} \cup (IF p[2] = None THEN {Dash1(p[1])} ELSE {})

\* the stored pairs that join a spelling of p1 to a spelling of p2
StoredBetween(conns, p1, p2) ==
    {c \in conns : \E x \in Spellings(p1), y \in Spellings(p2) : c = SortedPair(x, y)}

\* C12: delete_connection(a, b) with both pins parsing removes exactly one
\* stored pair and succeeds when the pair of a and b is stored under any
\* spelling of its endpoints (REF or REF-1 for a single-pin component); when
\* none is stored it reports not found and leaves the store as it was. Every
\* other stored pair stays.
C12_DeleteRemovesOne ==
    [][last'.op = "delete_connection" =>
          LET p1 == parse_pin(components, last'.args[1])
              p2 == parse_pin(components, last'.args[2])
          IN (p1 # None /\ p2 # None) =>
                IF StoredBetween(connections, p1, p2) # {}
                THEN /\ last'.ret = TRUE
                     /\ \E c \in StoredBetween(connections, p1, p2) :
                            connections' = connections \ {c}
                ELSE /\ last'.ret = FALSE
                     /\ connections' = connections]_vars

\* a delete_connection naming a single-pin component has removed a pair and
\* left another pair of that component stored
C12_Witness ==
    /\ last.op = "delete_connection" /\ last.ret = TRUE
    /\ LET p1 == parse_pin(components, last.args[1])
       IN /\ p1[2] = None
          /\ \E c \in connections : \E x \in Spellings(p1) : InConn(x, c)

\* C13: after delete_pin_connections(pin) succeeds no stored pair has pin, or
\* REF-1 when pin is the pin of a single-pin component REF, as an endpoint, and
\* every pair that had neither is still stored; when no stored pair has pin or
\* that alias as an endpoint the call fails and leaves the store as it was.
C13_DeletePinRemovesAll ==
    [][last'.op = "delete_pin_connections" =>
          LET p == parse_pin(components, last'.args[1])
              touching == {c \in connections : \E x \in Spellings(p) : InConn(x, c)}
          IN p # None =>
                IF touching # {}
                THEN /\ last'.ret = TRUE
                     /\ \A c \in connections' : \A x \in Spellings(p) : ~InConn(x, c)
                     /\ connections \ touching \subseteq connections'
                     /\ connections' \subseteq connections
                ELSE /\ last'.ret = FALSE
                     /\ connections' = connections]_vars

\* delete_pin_connections on the pin of a single-pin component has removed its
\* pairs and left a pair of other pins stored
C13_Witness ==
    /\ last.op = "delete_pin_connections" /\ last.ret = TRUE
    /\ parse_pin(components, last.args[1])[2] = None
    /\ connections # {}

\* C14: name_net on a pin that parses fails only when the pin has no
\* connection: when the pin, or REF-1 for the pin of a single-pin component
\* REF, is an endpoint of a stored pair, name_net succeeds.
C14_NameNetFindsConnectedPin ==
    last.op = "name_net" =>
        LET p == parse_pin(components, last.args[1])
        IN (p # None /\ \E x \in Spellings(p) : x \in Endpoints(connections))
               => last.ret = TRUE

\* C15: a successful name_net(pin, name) sets exactly the registry entry keyed
\* by the root key of the net holding pin, and leaves every other entry and
\* the connection set as they were; a failing name_net leaves the registry as
\* it was.
C15_NameNetSetsOneEntry ==
    [][last'.op = "name_net" =>
          IF last'.ret = TRUE
          THEN LET pin == format_pin(parse_pin(components, last'.args[1]))
                   name == last'.args[2]
               IN /\ \E order \in Orders(connections) :
                        LET nets == build_nets(order)
                        IN \E i \in 1..Len(nets) :
                               /\ pin \in nets[i].pins
                               /\ DOMAIN net_names' = DOMAIN net_names \cup {nets[i].root}
                               /\ net_names'[nets[i].root] = name
                               /\ \A k \in DOMAIN net_names \ {nets[i].root} :
                                      net_names'[k] = net_names[k]
                  /\ UNCHANGED connections
          ELSE UNCHANGED net_names]_vars

\* a name_net has named a second net: the registry holds two entries, the
\* older one under another name
C15_Witness ==
    /\ last.op = "name_net" /\ last.ret = TRUE
    /\ \E k \in DOMAIN net_names :
          /\ net_names[k] # last.args[2]
          /\ format_pin(parse_pin(components, last.args[1])) # k
          /\ ~Linked(k, format_pin(parse_pin(components, last.args[1])), Cardinality(connections))

\* the positions of the pin arguments of a command
PinArgs(op) ==
    IF op \in {"add_connection", "delete_connection", "merge_pins"} THEN {1, 2}
    ELSE IF op \in {"delete_pin_connections", "name_net"} THEN {1}
    ELSE {}

\* C16: when a pin token given to add_connection, delete_connection,
\* merge_pins, delete_pin_connections or name_net does not parse, the call
\* fails and changes neither the connection set, the component table (no
\* component is auto-added) nor the registry.
C16_UnparsablePinChangesNothing ==
    [][(\E k \in PinArgs(last'.op) : parse_pin(components, last'.args[k]) = None)
          => (last'.ret = FALSE /\ UNCHANGED <<connections, components, net_names>>)]_vars

\* an add_connection whose first pin parses and names a component not yet
\* registered, and whose second pin does not parse, has failed
C16_Witness ==
    /\ last.op = "add_connection" /\ last.ret = FALSE
    /\ parse_pin(components, last.args[1]) # None
    /\ parse_pin(components, last.args[2]) = None
    /\ parse_pin(components, last.args[1])[1] \notin DOMAIN components

\* C17: get_remaining_pins returns exactly the pins (ref, n) where ref is a
\* registered component with more than one pin that passes the prefix filter
\* when one is given, 1 <= n <= its pin count, and ref-n is an endpoint of no
\* stored connection; no component with one pin is listed.
C17_RemainingPinsExact ==
    last.op = "get_remaining_pins" =>
        LET ret == last.ret
            f == last.args[1]
            passes(ref) == f = None \/ startswith(ref, upper(f[1]))
        IN /\ {ret[i] : i \in 1..Len(ret)} =
                  {rn \in UNION {{<<ref, n>> : n \in 1..components[ref].pins} :
                                    ref \in DOMAIN components} :
                      /\ components[rn[1]].pins > 1
                      /\ passes(rn[1])
                      /\ rn[1] \o <<"-">> \o <<Digits[rn[2] + 1]>> \notin Endpoints(connections)}
           /\ \A i \in 1..Len(ret) : components[ret[i][1]].pins # 1

\* "remaining" with a prefix has listed a free pin of one component while
\* another component has more than one pin and a connected pin is left out
C17_Witness ==
    /\ last.op = "get_remaining_pins" /\ last.args[1] # None /\ last.args[1] # Some(<<>>)
    /\ Len(last.ret) = 1
    /\ \E ref \in DOMAIN components : components[ref].pins > 1 /\ ref # last.ret[1][1]
    /\ last.ret[1][1] \o <<"-", "1">> \in Endpoints(connections)

\* C18: whatever the connection set and the registry, two nets given the same
\* name included, the pin sets of the nets export_named_nets writes are the
\* pin sets of the nets build_nets returns.
C18_ExportKeepsEveryNet ==
    last.op = "export_named_nets" =>
        \E order \in Orders(connections) :
            {Range(last.ret[name].pins) : name \in DOMAIN last.ret} = NetFamily(order)

\* C19: normalize_ref is idempotent: normalizing its result gives the result
\* again, for every input string.
C19_NormalizeIdempotent ==
    last.op = "normalize_ref" => normalize_ref(last.ret) = last.ret

\* normalize_ref has rewritten a lowercase ref with a one-digit ordinal and
\* blanks around it
C19_Witness ==
    /\ last.op = "normalize_ref"
    /\ last.args[1] = <<" ", "d", "4", " ">>
    /\ last.ret = <<"D", "0", "4">>

\* the letters s starts with
RECURSIVE LeadingAlpha(_)
LeadingAlpha(s) ==
    IF s = <<>> \/ ~isalpha(s[1]) THEN <<>> ELSE <<s[1]>> \o LeadingAlpha(Tail(s))

\* the digits s ends with
RECURSIVE TrailingDigits(_)
TrailingDigits(s) ==
    IF s = <<>> \/ ~isdigit(s[Len(s)]) THEN <<>>
    ELSE TrailingDigits(SubSeq(s, 1, Len(s) - 1)) \o <<s[Len(s)]>>

\* C20: for the stripped, uppercased input s: when s is letters followed by
\* digits, the result is the letters and the ordinal padded to two digits if
\* the ordinal is below 10, and s if it is 10 or more; when s does not start
\* with a letter or does not end with a digit, the result is s.
C20_NormalizeSplitsRuns ==
    last.op = "normalize_ref" =>
        LET s == strip(upper(last.args[1]))
            prefix == LeadingAlpha(s)
            ordinal == TrailingDigits(s)
        IN /\ (prefix # <<>> /\ ordinal # <<>> /\ s = prefix \o ordinal) =>
                 last.ret = IF int(ordinal) < 10
                            THEN prefix \o (IF int(ordinal) = 0 THEN <<"0", "0">>
                                            ELSE <<"0", Digits[int(ordinal) + 1]>>)
                            ELSE s
           /\ (prefix = <<>> \/ ordinal = <<>>) => last.ret = s

\* the part of s before the first "-", else the first ".", else the first "_";
\* None when s holds no separator
RefPortion(s) ==
    IF Contains(s, "-") THEN Some(Split1(s, "-")[1])
    ELSE IF Contains(s, ".") THEN Some(Split1(s, ".")[1])
    ELSE IF Contains(s, "_") THEN Some(Split1(s, "_")[1])
    ELSE None

\* C21: a token with no separator parses iff its normalized form is a
\* registered component with one pin, and then to that component's pin; a
\* token REF<sep>LABEL whose normalized REF is registered with one pin parses
\* to the single-pin pin of REF whatever LABEL is; format_pin renders a
\* single-pin pin as the bare ref and any other pin as ref-label.
C21_ParsePinUniform ==
    last.op = "parse_pin" =>
        LET s == strip(upper(last.args[1]))
            p == last.ret
        IN /\ RefPortion(s) = None =>
                 IF IsSinglePin(components, normalize_ref(s))
                 THEN p = <<normalize_ref(s), None>>
                 ELSE p = None
           /\ (RefPortion(s) # None /\ IsSinglePin(components, normalize_ref(RefPortion(s)[1])))
                 => p = <<normalize_ref(RefPortion(s)[1]), None>>
           /\ p # None =>
                 last.msg = IF p[2] = None THEN p[1] ELSE p[1] \o <<"-">> \o p[2][1]

\* C22: when a write fails during the save() of the save command, of quit or
\* of an interrupt, the command loop reads no further command; a connectivity
\* command that fails leaves the loop running.
C22_FailedSaveEndsSession ==
    /\ (last.op \in {"save", "quit", "interrupt"} /\ last.ret = FALSE) => ~running
    /\ (last.op \in {"add_connection", "delete_connection"} /\ last.ret = FALSE) => running

\* C23: in the nets build_nets returns, the bare ref REF and the compound
\* REF-1 of a component now registered with one pin are in the same net
\* whenever both are endpoints of stored connections.
C23_AliasesShareNet ==
    last.op = "build_nets" =>
        \A ref \in DOMAIN components :
            (/\ IsSinglePin(components, ref)
             /\ ref \in Endpoints(connections)
             /\ Dash1(ref) \in Endpoints(connections))
            => \E i \in 1..Len(last.ret) :
                   ref \in last.ret[i].pins /\ Dash1(ref) \in last.ret[i].pins

\* C24: while the connection set is as it was when name_net(pin, name)
\* succeeded, every recomputation of the nets files the net of pin under a
\* root key whose registry entry is name. In a session that leaves the
\* connection set alone once a net has a name, the net of pin is the net that
\* holds the key the name was recorded under.
C24_NameStaysOnNet ==
    last.op = "build_nets" =>
        \A key \in DOMAIN net_names : \A i \in 1..Len(last.ret) :
            key \in last.ret[i].pins =>
                /\ last.ret[i].root \in DOMAIN net_names
                /\ net_names[last.ret[i].root] = net_names[key]

\* the root of x by following the parent links, and the parent dict after lazy
\* insertion only: find without the assignment parent[x] = find(parent[x])
RECURSIVE PlainFind(_, _)
PlainFind(parent, x) ==
    LET seen == IF x \in DOMAIN parent THEN parent ELSE (x :> x) @@ parent
    IN IF seen[x] # x THEN PlainFind(seen, seen[x])
       ELSE [root |-> x, parent |-> seen]

\* union over PlainFind
PlainUnion(parent, x, y) ==
    LET fx == PlainFind(parent, x)
        fy == PlainFind(fx.parent, y)
    IN IF fx.root # fy.root
       THEN [fy.parent EXCEPT ![fx.root] = fy.root]
       ELSE fy.parent

\* the union loop over PlainUnion
RECURSIVE PlainUnionLoop(_, _, _)
PlainUnionLoop(parent, order, k) ==
    IF k > Len(order) THEN parent
    ELSE PlainUnionLoop(PlainUnion(parent, order[k][1], order[k][2]), order, k + 1)

\* the pin sets of the nets of the union-find without compression: the pins of
\* the pairs grouped by their PlainFind root
PlainFamily(order) ==
    LET parent == PlainUnionLoop(<<>>, order, 1)
        pins == Endpoints(Range(order))
    IN {{q \in pins : PlainFind(parent, q).root = PlainFind(parent, p).root} : p \in pins}

\* C25: for every connection set and every processing order, build_nets with
\* its compressing find yields the same partition of the pins as the same
\* union-find with a find that does not compress.
C25_CompressionKeepsPartition ==
    \A order \in Orders(connections) : NetFamily(order) = PlainFamily(order)

\* a store and an order for which compression rewrites a parent link during
\* the union loop
C25_Witness ==
    \E order \in Orders(connections) :
        UnionLoop(<<>>, order, 1) # PlainUnionLoop(<<>>, order, 1)

\* the token has one of the separators of a pin
HasSeparator(token) == \E i \in 1..Len(Separators) : Contains(token, Separators[i])

\* C26: find_connections(token) returns stored pairs only, sorted and without
\* repeats, among them every stored pair that has the queried pin as an
\* endpoint (under the alias REF-1 too when the pin is that of a single-pin
\* component) and, for a bare ref, every stored pair that has a compound pin
\* of that component as an endpoint.
C26_FindIncludesPinPairs ==
    last.op = "find_connections" =>
        LET token == strip(upper(last.args[1]))
            p == parse_pin(components, token)
            found == Range(last.ret)
        IN /\ found \subseteq connections
           /\ \A i, j \in 1..Len(last.ret) : i < j => PairLess(last.ret[i], last.ret[j])
           /\ (HasSeparator(token) /\ p # None) =>
                  \A conn \in connections :
                      (InConn(format_pin(p), conn) \/ (p[2] = None /\ InConn(Dash1(p[1]), conn)))
                          => conn \in found
           /\ ~HasSeparator(token) =>
                  \A conn \in connections :
                      (\/ startswith(conn[1], normalize_ref(token) \o <<"-">>)
                       \/ startswith(conn[2], normalize_ref(token) \o <<"-">>))
                          => conn \in found

PinOf(ref, e) == e = ref \/ startswith(e, ref \o <<"-">>)

\* conn has a pin of the component ref as an endpoint
OnComponent(ref, conn) == PinOf(ref, conn[1]) \/ PinOf(ref, conn[2])

\* C28: after delete_component(ref) has succeeded no stored connection has a
\* pin of that component as an endpoint, in the form ref-label or as the bare
\* ref, and the connections that did not involve the component are as before.
C28_DeleteComponentClearsPins ==
    [][(last'.op = "delete_component" /\ last'.ret = TRUE) =>
          LET ref == normalize_ref(last'.args[1])
          IN /\ \A conn \in connections' : ~OnComponent(ref, conn)
             /\ connections' \subseteq connections
             /\ \A conn \in connections : ~OnComponent(ref, conn) => conn \in connections']_vars

\* C29: every endpoint of every stored connection is a pin of a component
\* that is in the component table.
C29_NoDanglingEndpoint ==
    \A conn \in connections : \A e \in {conn[1], conn[2]} :
        \E ref \in DOMAIN components : PinOf(ref, e)

\* the root keys of the nets build_nets returns when it visits the pairs in this order
NetRoots(order) == {build_nets(order)[i].root : i \in 1..Len(build_nets(order))}

\* C30: for every connection set, any two processing orders of its pairs give
\* build_nets the same family of member sets: every order gives the family
\* that the sorted order gives.
C30_OrderKeepsFamily ==
    \A order \in Orders(connections) :
        NetFamily(order) = NetFamily(sorted_connections(connections))

\* a store of which two processing orders give different root keys
C30_Witness ==
    \E order \in Orders(connections) :
        NetRoots(order) # NetRoots(sorted_connections(connections))

\* C31: find_connections(token) returns, for a token naming a pin, only
\* stored pairs that have that pin as an endpoint and, for a token naming a
\* component, only stored pairs that have a pin of that component as an
\* endpoint.
C31_FindReturnsOnlyPinPairs ==
    last.op = "find_connections" =>
        LET token == strip(upper(last.args[1]))
            p == parse_pin(components, token)
        IN /\ (HasSeparator(token) /\ p # None) =>
                  \A conn \in Range(last.ret) :
                      InConn(format_pin(p), conn) \/ (p[2] = None /\ InConn(Dash1(p[1]), conn))
           /\ ~HasSeparator(token) =>
                  \A conn \in Range(last.ret) : OnComponent(normalize_ref(token), conn)

\* the pin reached from x after n parent links
RECURSIVE Walk(_, _, _)
Walk(parent, x, n) == IF n = 0 THEN x ELSE Walk(parent, parent[x], n - 1)

\* the parent map is a forest: every link stays in the map, and following the
\* links from any pin reaches a self-parented pin before a pin is seen twice
Forest(parent) ==
    \A x \in DOMAIN parent :
        /\ parent[x] \in DOMAIN parent
        /\ \E n \in 0..(Cardinality(DOMAIN parent) - 1) :
               parent[Walk(parent, x, n)] = Walk(parent, x, n)

\* C32: at every step of build_nets the parent map is a forest, and a
\* build_nets that has started returns.
C32_ForestAndTermination ==
    /\ [](call # None => Forest(call[1].parent))
    /\ (call # None) ~> (call = None)

\* build_nets is in its grouping loop with a parent map in which some pin is
\* two links away from its root
C32_Witness ==
    /\ call # None
    /\ call[1].pc = "group"
    /\ \E x \in DOMAIN call[1].parent :
           /\ call[1].parent[x] # x
           /\ call[1].parent[call[1].parent[x]] # call[1].parent[x]

====
